---- MODULE Spec2Model ----
(***************************************************************************)
(* Model of scripts/extract_quotes.py: a script that scans src/quotes.rs   *)
(* for Quote { ... } blocks, buckets the extracted records by category and *)
(* merges each bucket into quotes/categories/<file>.json.                  *)
(*                                                                         *)
(* One run of the script is one process: ReadSource, then one ExtractMatch *)
(* per regex match, then one Save* step per entry of the categories table, *)
(* then Finish.  Rerun starts the script again, on the same source text    *)
(* and on the files the previous run left behind.                         *)
(***************************************************************************)
EXTENDS Naturals, Sequences, FiniteSets

(* ------------------------------ bounds -------------------------------- *)

\* longest source text, in blocks
MaxBlocks == 2
\* longest partition file present before the first run, in records
MaxExisting == 1
\* number of consecutive runs of the script
MaxRuns == 2

(* --------------------------- static tables ---------------------------- *)

\* the categories dict, in insertion order (the order .items() iterates in)
CategoryOrder ==
    << "Proverbs", "TongueTwisters", "Literature", "Programming",
       "Humor", "Multilingual", "Typewriters" >>

NumCategories == Len(CategoryOrder)

KnownCategories == { CategoryOrder[n] : n \in 1..NumCategories }

\* a variant of the table in which two categories share one file name
categoriesShared ==
    [ c \in KnownCategories |->
        CASE c = "Proverbs"       -> "proverbs.json"
          [] c = "TongueTwisters" -> "tongue_twisters.json"
          [] c = "Literature"     -> "proverbs.json"
          [] c = "Programming"    -> "programming.json"
          [] c = "Humor"          -> "humor.json"
          [] c = "Multilingual"   -> "multilingual.json"
          [] c = "Typewriters"    -> "typewriters.json" ]

\* the categories dict: category label -> output file name
categories ==
    [ c \in KnownCategories |->
        CASE c = "Proverbs"       -> "proverbs.json"
          [] c = "TongueTwisters" -> "tongue_twisters.json"
          [] c = "Literature"     -> "literature.json"
          [] c = "Programming"    -> "programming.json"
          [] c = "Humor"          -> "humor.json"
          [] c = "Multilingual"   -> "multilingual.json"
          [] c = "Typewriters"    -> "typewriters.json" ]

FileNames == { categories[c] : c \in KnownCategories }

\* the five fields of the pattern, in the order the pattern requires them
PatternFields == << "text", "source", "difficulty", "category", "origin" >>

(* ------------------------- input universe ----------------------------- *)

\* categories that occur in the bounded inputs: two known ones, the first
\* and a later one of the iteration order, and one label outside the table
InputKnown == { "Proverbs", "Literature" }
UnknownCategory == "Other"

\* << text, source, category >> of the well-formed blocks of the inputs; two
\* of them differ in the source field only
InputFields ==
    { << "A", "x", "Proverbs" >>, << "A", "y", "Proverbs" >>,
      << "B", "x", "Proverbs" >>,
      << "A", "x", "Literature" >>,
      << "A", "x", UnknownCategory >> }

\* values the \w+ groups accept / the "[^"]*" groups accept
IsWord(v) == v \notin { "", "a-b", "A\"B" }
IsQuoteFree(v) == v # "A\"B"

\* a block of source text: the sequence of its  key: value  fields
MkBlock(t, s, c) ==
    << <<"text", t>>, <<"source", s>>, <<"difficulty", "Easy">>,
       <<"category", c>>, <<"origin", "o">> >>

WellFormedBlocks == { MkBlock(f[1], f[2], f[3]) : f \in InputFields }

MalformedBlocks ==
    { \* the origin field is missing
      SubSeq(MkBlock("A", "x", "Proverbs"), 1, 4),
      \* the category label is not a \w+ word
      MkBlock("B", "x", "") }

BlockPool == WellFormedBlocks \cup MalformedBlocks

SeqsUpTo(S, n) == UNION { [1..m -> S] : m \in 0..n }

\* what open("src/quotes.rs") finds
Unreadable == [readable |-> FALSE, blocks |-> << >>]
Readable(blocks) == [readable |-> TRUE, blocks |-> blocks]

Sources ==
    { Unreadable } \cup { Readable(b) : b \in SeqsUpTo(BlockPool, MaxBlocks) }

MkQuote(t, s, d, c, o) ==
    [text |-> t, source |-> s, difficulty |-> d, category |-> c, origin |-> o]

TextsOf(recs) == { recs[n].text : n \in 1..Len(recs) }

DistinctTexts(recs) ==
    \A m, n \in 1..Len(recs) : m # n => recs[m].text # recs[n].text

Absent == [st |-> "absent", recs |-> << >>]
Corrupt == [st |-> "corrupt", recs |-> << >>]
Holding(recs) == [st |-> "ok", recs |-> recs]

\* what a partition file may hold before the first run: nothing, something
\* json.load or the text lookup fails on, or records with distinct texts
InitialContents(c) ==
    { Absent, Corrupt }
        \cup { Holding(r) :
                 r \in { q \in SeqsUpTo({ MkQuote(f[1], f[2], "Easy", c, "o") :
                                            f \in { g \in InputFields : g[3] = c } },
                                        MaxExisting) : DistinctTexts(q) } }

(* ----------------------------- the pattern ---------------------------- *)

\* a variant of the pattern whose category group is [^,]* instead of \w+
MatchesAnyLabel(b) ==
    /\ Len(b) = Len(PatternFields)
    /\ \A n \in 1..Len(PatternFields) : b[n][1] = PatternFields[n]
    /\ IsQuoteFree(b[1][2])
    /\ IsQuoteFree(b[2][2])
    /\ IsWord(b[3][2])
    /\ IsQuoteFree(b[5][2])

\* quote_pattern applied to one block: the five fields, in order, with
\* quote-free strings and \w+ labels
Matches(b) ==
    /\ Len(b) = Len(PatternFields)
    /\ \A n \in 1..Len(PatternFields) : b[n][1] = PatternFields[n]
    /\ IsQuoteFree(b[1][2])
    /\ IsQuoteFree(b[2][2])
    /\ IsWord(b[3][2])
    /\ IsWord(b[4][2])
    /\ IsQuoteFree(b[5][2])

\* the captured groups of a matching block
Groups(b) == << b[1][2], b[2][2], b[3][2], b[4][2], b[5][2] >>

\* quote_pattern.findall(content): the groups of every match, left to right
RECURSIVE FindAll(_)
FindAll(blocks) ==
    IF blocks = << >> THEN << >>
    ELSE IF Matches(Head(blocks))
         THEN << Groups(Head(blocks)) >> \o FindAll(Tail(blocks))
         ELSE FindAll(Tail(blocks))

\* the quote object built from one match
QuoteOf(match) == MkQuote(match[1], match[2], match[3], match[4], match[5])

\* the test that routes a quote into a bucket
InBuckets(category) == category \in KnownCategories

\* a variant that files a quote of an unknown category under the first bucket
BucketedWithDefault(buckets, quote) ==
    IF InBuckets(quote.category)
    THEN [buckets EXCEPT ![quote.category] = Append(@, quote)]
    ELSE [buckets EXCEPT ![CategoryOrder[1]] = Append(@, quote)]

\* the buckets after one quote was routed: appended to the bucket of its
\* category, or dropped (with a message) when there is no such bucket
Bucketed(buckets, quote) ==
    IF InBuckets(quote.category)
    THEN [buckets EXCEPT ![quote.category] = Append(@, quote)]
    ELSE buckets

(* ------------------------------ the merge ----------------------------- *)

\* existing_texts
ExistingTexts(existing_quotes) == TextsOf(existing_quotes)

\* a variant without the duplicate filter
NewQuotesUnfiltered(existing_quotes, quotes) == quotes

\* new_quotes: the incoming quotes whose text the file does not hold yet
NewQuotes(existing_quotes, quotes) ==
    SelectSeq(quotes, LAMBDA q : q.text \notin ExistingTexts(existing_quotes))

\* a variant that puts the new quotes first
MergedQuotesNewFirst(existing_quotes, new_quotes) == new_quotes \o existing_quotes

\* all_quotes when the file exists
MergedQuotes(existing_quotes, new_quotes) == existing_quotes \o new_quotes

\* a variant that keeps the first quote of each text only
RECURSIVE CreatedQuotesDeduplicated(_)
CreatedQuotesDeduplicated(quotes) ==
    IF quotes = << >> THEN << >>
    ELSE LET front == CreatedQuotesDeduplicated(SubSeq(quotes, 1, Len(quotes) - 1))
             last == quotes[Len(quotes)]
         IN  IF last.text \in TextsOf(front) THEN front ELSE Append(front, last)

\* all_quotes when the file does not exist
CreatedQuotes(quotes) == quotes

\* exit status of the interpreter
ExitNormal == 0
ExitUnhandled == 1

(* ------------------------------- state -------------------------------- *)

VARIABLES
    content,             \* src/quotes.rs as this run finds it
    files,               \* quotes/categories/: file name -> content
    pc,                  \* position of the running script
    matches,             \* result of findall
    i,                   \* position of the for loop over matches
    quotes_by_category,  \* the module-level buckets
    k,                   \* position of the for loop over categories.items()
    exitCode,            \* exit status, once the process has ended
    run,                 \* number of the current run
    yielded,             \* history: quote objects built by this run
    files0,              \* history: files when this run started
    written,             \* history: file names this run has written
    prevWritten,         \* history: file names the previous run wrote
    failedAt             \* history: position of the category whose load failed

vars == << content, files, pc, matches, i, quotes_by_category, k, exitCode,
           run, yielded, files0, written,
                    prevWritten, failedAt >>

EmptyBuckets == [ c \in KnownCategories |-> << >> ]

Init ==
    /\ content \in Sources
    /\ \E g \in [InputKnown -> UNION { InitialContents(c) : c \in InputKnown }] :
          /\ \A c \in InputKnown : g[c] \in InitialContents(c)
          /\ files = [ fn \in FileNames |->
                         IF \E c \in InputKnown : categories[c] = fn
                         THEN g[CHOOSE c \in InputKnown : categories[c] = fn]
                         ELSE Absent ]
    /\ pc = "start"
    /\ matches = << >>
    /\ i = 1
    /\ quotes_by_category = EmptyBuckets
    /\ k = 1
    /\ exitCode = ExitNormal
    /\ run = 1
    /\ yielded = << >>
    /\ files0 = files
    /\ written = {}
    /\ prevWritten = {}
    /\ failedAt = 0

(* ------------------------ extract_quotes_from_file -------------------- *)

\* a variant that takes an unreadable source for an empty one
ReadSourceTolerant ==
    /\ pc = "start"
    /\ matches' = IF content.readable THEN FindAll(content.blocks) ELSE << >>
    /\ pc' = "extract"
    /\ i' = 1
    /\ UNCHANGED << content, files, quotes_by_category, k, exitCode, run,
                    yielded, files0, written, prevWritten,
                    failedAt >>

\* open() and read(), then findall; an unreadable source raises
ReadSource ==
    /\ pc = "start"
    /\ IF content.readable
       THEN /\ matches' = FindAll(content.blocks)
            /\ pc' = "extract"
            /\ UNCHANGED exitCode
       ELSE /\ pc' = "failed"
            /\ exitCode' = ExitUnhandled
            /\ UNCHANGED matches
    /\ i' = 1
    /\ UNCHANGED << content, files, quotes_by_category, k, run, yielded,
                    files0, written,
                    prevWritten, failedAt >>

\* one iteration of  for match in matches
ExtractMatch ==
    /\ pc = "extract"
    /\ i <= Len(matches)
    /\ LET quote == QuoteOf(matches[i])
       IN  /\ yielded' = Append(yielded, quote)
           /\ quotes_by_category' = Bucketed(quotes_by_category, quote)
    /\ i' = i + 1
    /\ UNCHANGED << content, files, pc, matches, k, exitCode, run, files0,
                    written,
                    prevWritten, failedAt >>

\* the loop is exhausted: extract_quotes_from_file returns and
\* save_quotes_to_json starts
BeginSave ==
    /\ pc = "extract"
    /\ i > Len(matches)
    /\ pc' = "save"
    /\ k' = 1
    /\ UNCHANGED << content, files, matches, i, quotes_by_category, exitCode,
                    run, yielded, files0, written,
                    prevWritten, failedAt >>

(* --------------------------- save_quotes_to_json ---------------------- *)

Category == CategoryOrder[k]
Filename == categories[Category]
Quotes == quotes_by_category[Category]

SaveFrame ==
    UNCHANGED << content, matches, i, quotes_by_category, run, yielded,
                 files0, prevWritten >>

\* a variant that leaves an empty array behind for an empty bucket
SaveSkipEmptyCreates ==
    /\ pc = "save" /\ k <= NumCategories
    /\ Quotes = << >>
    /\ files' = [files EXCEPT
                   ![Filename] = IF @.st = "absent" THEN Holding(<< >>) ELSE @]
    /\ k' = k + 1
    /\ UNCHANGED << pc, exitCode, written, failedAt >>
    /\ SaveFrame

\* if not quotes: continue
SaveSkipEmpty ==
    /\ pc = "save" /\ k <= NumCategories
    /\ Quotes = << >>
    /\ k' = k + 1
    /\ UNCHANGED << files, pc, exitCode, written, failedAt >>
    /\ SaveFrame

\* a variant that takes a file it cannot load for an empty one
SaveLoadFailOverwrites ==
    /\ pc = "save" /\ k <= NumCategories
    /\ Quotes # << >>
    /\ files[Filename].st = "corrupt"
    /\ files' = [files EXCEPT ![Filename] = Holding(Quotes)]
    /\ written' = written \cup { Filename }
    /\ k' = k + 1
    /\ UNCHANGED << pc, exitCode, failedAt >>
    /\ SaveFrame

\* the file exists and json.load (or reading the texts) raises
SaveLoadFail ==
    /\ pc = "save" /\ k <= NumCategories
    /\ Quotes # << >>
    /\ files[Filename].st = "corrupt"
    /\ pc' = "failed"
    /\ exitCode' = ExitUnhandled
    /\ failedAt' = k
    /\ UNCHANGED << files, k, written >>
    /\ SaveFrame

\* the file exists and holds every incoming text already: continue
SaveNoNew ==
    /\ pc = "save" /\ k <= NumCategories
    /\ Quotes # << >>
    /\ files[Filename].st = "ok"
    /\ NewQuotes(files[Filename].recs, Quotes) = << >>
    /\ k' = k + 1
    /\ UNCHANGED << files, pc, exitCode, written, failedAt >>
    /\ SaveFrame

\* the file exists: existing + new is dumped over it
SaveMerge ==
    /\ pc = "save" /\ k <= NumCategories
    /\ Quotes # << >>
    /\ files[Filename].st = "ok"
    /\ LET existing_quotes == files[Filename].recs
           new_quotes == NewQuotes(existing_quotes, Quotes)
       IN  /\ new_quotes # << >>
           /\ files' = [files EXCEPT
                          ![Filename] =
                             Holding(MergedQuotes(existing_quotes, new_quotes))]
    /\ written' = written \cup { Filename }
    /\ k' = k + 1
    /\ UNCHANGED << pc, exitCode, failedAt >>
    /\ SaveFrame

\* the file does not exist: the bucket is dumped into a new file
SaveCreate ==
    /\ pc = "save" /\ k <= NumCategories
    /\ Quotes # << >>
    /\ files[Filename].st = "absent"
    /\ files' = [files EXCEPT ![Filename] = Holding(CreatedQuotes(Quotes))]
    /\ written' = written \cup { Filename }
    /\ k' = k + 1
    /\ UNCHANGED << pc, exitCode, failedAt >>
    /\ SaveFrame

\* the loop is exhausted: the script prints its last line and exits
Finish ==
    /\ pc = "save"
    /\ k > NumCategories
    /\ pc' = "done"
    /\ exitCode' = ExitNormal
    /\ UNCHANGED << content, files, matches, i, quotes_by_category, k, run,
                    yielded, files0, written,
                    prevWritten, failedAt >>

(* ------------------------------ next run ------------------------------ *)

\* the script is started again on the same source text: a new process, with
\* empty buckets, on the files the previous run left
Rerun ==
    /\ pc \in { "done", "failed" }
    /\ run < MaxRuns
    /\ run' = run + 1
    /\ files0' = files
    /\ pc' = "start"
    /\ matches' = << >>
    /\ i' = 1
    /\ quotes_by_category' = EmptyBuckets
    /\ k' = 1
    /\ exitCode' = ExitNormal
    /\ yielded' = << >>
    /\ written' = {}
    /\ prevWritten' = written
    /\ failedAt' = 0
    /\ UNCHANGED << content, files >>

Next ==
    \/ ReadSource
    \/ ExtractMatch
    \/ BeginSave
    \/ SaveSkipEmpty
    \/ SaveLoadFail
    \/ SaveNoNew
    \/ SaveMerge
    \/ SaveCreate
    \/ Finish
    \/ Rerun

Spec == Init /\ [][Next]_vars

(* ---------------------- what a run is expected to do ------------------ *)

\* a block has the fixed five-field shape
WellShaped(b) ==
    /\ [ n \in 1..Len(b) |-> b[n][1] ] = PatternFields
    /\ \A n \in { 1, 2, 5 } : IsQuoteFree(b[n][2])
    /\ \A n \in { 3, 4 } : IsWord(b[n][2])

RecordOf(b) ==
    [text |-> b[1][2], source |-> b[2][2], difficulty |-> b[3][2],
     category |-> b[4][2], origin |-> b[5][2]]

\* the records of the well-shaped blocks of this run's source, in source order
Extracted ==
    LET shaped == SelectSeq(content.blocks, WellShaped)
    IN  [ n \in 1..Len(shaped) |-> RecordOf(shaped[n]) ]

\* the incoming records of category c, in extraction order
Incoming(c) == SelectSeq(Extracted, LAMBDA q : q.category = c)

\* those of them whose text the file did not hold when the run started
Fresh(c) ==
    SelectSeq(Incoming(c),
              LAMBDA q : \A n \in 1..Len(files0[categories[c]].recs) :
                            files0[categories[c]].recs[n].text # q.text)

IsPrefix(s, t) == Len(s) <= Len(t) /\ SubSeq(t, 1, Len(s)) = s

\* the loop of save_quotes_to_json has handled the n-th category
Handled(n) == pc \in { "save", "done", "failed" } /\ n < k

Ended == pc \in { "done", "failed" }

\* some partition file the run has to load cannot be loaded
SomeLoadFails ==
    \E c \in KnownCategories :
        Incoming(c) # << >> /\ files0[categories[c]].st = "corrupt"

\* the position, in the category order, of the first file that cannot be loaded
FailingPosition ==
    CHOOSE n \in 1..NumCategories :
        /\ Incoming(CategoryOrder[n]) # << >>
        /\ files0[categories[CategoryOrder[n]]].st = "corrupt"
        /\ \A m \in 1..(n - 1) :
              ~(/\ Incoming(CategoryOrder[m]) # << >>
                /\ files0[categories[CategoryOrder[m]]].st = "corrupt")

(* ------------------------------- claims ------------------------------- *)

\* C1: every partition file holds records whose text values are pairwise
\* distinct, after any sequence of runs on any extracted inputs.
C1_UniqueTexts ==
    \A fn \in FileNames : DistinctTexts(files[fn].recs)

\* C2: running the script again on the same source text leaves every
\* partition file as the previous run left it: at every step of the later
\* run, and when it has ended, no file has changed and none was written.
C2_Idempotent ==
    run >= 2 => (files = files0 /\ written = {})

C2_Witness ==
    /\ pc = "done" /\ run = 2
    /\ prevWritten # {}
    /\ matches # << >>

\* C3: once the loop has handled a category whose file existed and for which
\* some incoming record has a text the file did not hold, the file holds the
\* existing records, unchanged and in order, followed by the incoming records
\* with a text not among the existing ones, in extraction order; and a file
\* that existed always keeps its prior content as a prefix.
C3_MergeAppends ==
    /\ \A n \in 1..NumCategories :
          LET c == CategoryOrder[n]
              fn == categories[c]
          IN  (Handled(n) /\ files0[fn].st = "ok" /\ Fresh(c) # << >>)
                 => files[fn] = Holding(files0[fn].recs \o Fresh(c))
    /\ \A fn \in FileNames :
          files0[fn].st = "ok"
             => (files[fn].st = "ok" /\ IsPrefix(files0[fn].recs, files[fn].recs))

C3_Witness ==
    /\ pc = "done"
    /\ \E c \in KnownCategories :
          /\ files0[categories[c]].st = "ok"
          /\ files0[categories[c]].recs # << >>
          /\ Fresh(c) # << >>
          /\ Len(Fresh(c)) < Len(Incoming(c))
          /\ categories[c] \in written

\* C4: once the loop has handled a category whose file did not exist and for
\* which at least one record was extracted, the file exists and holds exactly
\* the records extracted for that category in this run, in extraction order.
C4_CreateHoldsAll ==
    \A n \in 1..NumCategories :
        LET c == CategoryOrder[n]
            fn == categories[c]
        IN  (Handled(n) /\ files0[fn].st = "absent" /\ Incoming(c) # << >>)
               => files[fn] = Holding(Incoming(c))

C4_Witness ==
    /\ pc = "done"
    /\ \E c \in KnownCategories :
          /\ files0[categories[c]].st = "absent"
          /\ Len(Incoming(c)) >= 2
          /\ ~DistinctTexts(Incoming(c))
          /\ files[categories[c]].st = "ok"

\* C5: a category with no new record in this run, because none was extracted
\* or because the existing file holds every extracted text, has its file
\* never written: an absent file stays absent, an existing one is unchanged.
C5_NoNewNoWrite ==
    \A c \in KnownCategories :
        LET fn == categories[c]
        IN  (\/ Incoming(c) = << >>
             \/ (files0[fn].st = "ok" /\ Fresh(c) = << >>))
               => (files[fn] = files0[fn] /\ fn \notin written)

C5_Witness ==
    /\ pc = "done"
    /\ \E c \in KnownCategories :
          /\ Incoming(c) # << >>
          /\ files0[categories[c]].st = "ok"
          /\ Fresh(c) = << >>
    /\ \E c \in InputKnown :
          /\ Incoming(c) = << >>
          /\ files[categories[c]].st = "absent"

\* C6: a record whose category is none of the 7 known ones is in no output
\* file; it does not make the run fail (a run fails on an unreadable source
\* or an unloadable file only), and in a run that completes every extracted
\* record of a known category has its text in the file of that category.
C6_UnknownDropped ==
    /\ \A fn \in FileNames : \A n \in 1..Len(files[fn].recs) :
          files[fn].recs[n].category \in KnownCategories
    /\ \A c \in KnownCategories : \A n \in 1..Len(quotes_by_category[c]) :
          quotes_by_category[c][n].category \in KnownCategories
    /\ pc = "failed" => (~content.readable \/ SomeLoadFails)
    /\ pc = "done" =>
          \A n \in 1..Len(Extracted) :
              Extracted[n].category \in KnownCategories
                 => Extracted[n].text
                       \in TextsOf(files[categories[Extracted[n].category]].recs)

C6_Witness ==
    /\ pc = "done"
    /\ \E m, n \in 1..Len(Extracted) :
          /\ m < n
          /\ Extracted[m].category \notin KnownCategories
          /\ Extracted[n].category \in KnownCategories
          /\ categories[Extracted[n].category] \in written

\* C7: every record a run adds to a partition file carries the category the
\* table binds to that file, and every quote built from a match of a known
\* category is in the bucket of its category and in no other bucket.
C7_RoutedByCategory ==
    \A c \in KnownCategories :
        LET fn == categories[c]
        IN  /\ \A n \in (Len(files0[fn].recs) + 1)..Len(files[fn].recs) :
                  files[fn].recs[n].category = c
            /\ quotes_by_category[c] = SelectSeq(yielded, LAMBDA q : q.category = c)

C7_Witness ==
    /\ pc = "done"
    /\ Cardinality(written) >= 2
    /\ \E c \in KnownCategories :
          /\ categories[c] \in written
          /\ files0[categories[c]].st = "ok"

\* C8 as stated: every invocation ends with exit code 0, also when the source
\* cannot be opened or an existing output file cannot be loaded.
C8_AlwaysExitZero ==
    Ended => exitCode = 0

\* C8 as amended: an invocation ends with exit code 0 exactly when the source
\* can be read and every existing file of a category with extracted records
\* can be loaded; otherwise the failure is unhandled and the exit code is 1.
C8_ExitZeroUnlessIOFails ==
    Ended => exitCode = (IF content.readable /\ ~SomeLoadFails THEN 0 ELSE 1)

C8_Witness ==
    pc = "failed" /\ ~content.readable /\ exitCode = 1

\* C9: the extractor builds exactly one record per block of the fixed shape,
\* in source order, with the block's five captured fields; other blocks give
\* no record and no failure.
C9_OneRecordPerMatch ==
    (content.readable /\ pc # "start")
        => /\ i <= Len(Extracted) + 1
           /\ yielded = SubSeq(Extracted, 1, i - 1)
           /\ pc # "extract" => yielded = Extracted
           /\ pc = "failed" => SomeLoadFails

C9_Witness ==
    /\ pc = "save"
    /\ Len(content.blocks) = 2
    /\ Len(yielded) = 1
    /\ ~WellShaped(content.blocks[1])
    /\ yielded[1] = RecordOf(content.blocks[2])

\* C10: when loading the existing file of a category fails, the run stops
\* there: that file and the files of all later categories are as before the
\* run, the files of earlier categories hold what the run merged into them.
C10_StopsAtFailedLoad ==
    (content.readable /\ SomeLoadFails)
        => /\ k <= FailingPosition
           /\ pc # "done"
           /\ \A n \in FailingPosition..NumCategories :
                 files[categories[CategoryOrder[n]]]
                    = files0[categories[CategoryOrder[n]]]
           /\ pc = "failed" =>
                 /\ k = FailingPosition
                 /\ failedAt = FailingPosition
                 /\ \A n \in 1..(FailingPosition - 1) :
                       LET c == CategoryOrder[n]
                           fn == categories[c]
                       IN  files[fn] =
                              (IF Fresh(c) = << >> THEN files0[fn]
                               ELSE Holding(files0[fn].recs \o Fresh(c)))

C10_Witness ==
    /\ pc = "failed"
    /\ failedAt > 1
    /\ written # {}
    /\ \E fn \in written : files[fn] # files0[fn]

====
